---- MODULE Spec2Model ----
(***************************************************************************)
(* A model of the data-flow task scheduler of UnSHACLed                    *)
(* (src/src/entities/modelTaskQueue.ts): ModelTaskQueue, TaskInstruction,  *)
(* PriorityPartitionedQueue, InstructionMerger and PriorityGenerator.      *)
(*                                                                         *)
(* An instruction is identified by the position of its task in `tasks`;    *)
(* instructions are numbered in the order in which they are constructed.   *)
(***************************************************************************)
EXTENDS Integers, Sequences, FiniteSets, TLC

\* ------------------------------------------------------------------ bounds

\* The number of tasks a producer enqueues in one behaviour.
MaxTasks == 3

\* The number of tasks enqueued in one behaviour of the specification that
\* enqueues independent tasks only (empty read and write sets).
MaxIndependentTasks == 6

\* The number of independent tasks enqueued in one behaviour of the
\* specification whose consumer keeps calling dequeue.
MaxFairTasks == 5

\* The windows of the generator that is run on its own reach from at most
\* MaxBelowZero below priority 0 to at most MaxAboveZero above it, and the
\* generator is run for MaxCycles cycles.
MaxBelowZero == 2
MaxAboveZero == 3
MaxCycles == 2

\* The number of tasks enqueued in one behaviour of the specification that
\* enqueues tasks of one priority and offers merges.
MaxMergeTasks == 3

\* The number of rewriters registered in one behaviour.
MaxRewriters == 1

\* The number of merges made in one behaviour.
MaxMerges == 1

\* The model components tasks read from and write to.
Components == {"c1", "c2"}

\* The priorities tasks carry.
Priorities == -1 .. 1

\* "No instruction": the undefined of the source.
None == 0

\* ------------------------------------------------------------------- state

VARIABLES
    tasks,                   \* tasks[i]: the task stored in instruction i
    dependencies,            \* dependencies[i]: TaskInstruction.dependencies
    invertedDependencies,    \* invertedDependencies[i], in insertion order
    latestComponentStateMap, \* component -> latest instruction that defines it
    eligibleInstructions,    \* the PriorityPartitionedQueue and its generator
    rewriters,               \* InstructionMerger.rewriters
    interestSets,            \* InstructionMerger.interestSets
    returned,                \* the instructions dequeue has returned, in order
    merged,                  \* the merges made: <<first, second, merged>>
    call                     \* the last call made and what it returned

vars == <<tasks, dependencies, invertedDependencies, latestComponentStateMap,
          eligibleInstructions, rewriters, interestSets, returned, merged,
          call>>

\* ----------------------------------------------------------------- helpers

Range(s) == {s[i] : i \in 1 .. Len(s)}

\* Collections.Set iterates in insertion order; a set whose iteration order
\* the code depends on is a sequence without duplicates.
SetAdd(s, e) == IF e \in Range(s) THEN s ELSE Append(s, e)

\* The tasks a producer can submit: read set, write set and priority.
Task == [readSet : SUBSET Components, writeSet : SUBSET Components,
         priority : Priorities]

\* The tasks the producer submits where only priorities matter: tasks that
\* touch no component, of every priority.
IndependentTask == {t \in Task : t.readSet = {} /\ t.writeSet = {}}

\* The tasks the producer submits where tasks depend on each other: any
\* read set, at most one component written, priority 0 or 1.
ProducerTask ==
    {t \in Task : Cardinality(t.writeSet) <= 1 /\ t.priority \in 0 .. 1}

\* The tasks the producer submits where priorities play no part: the
\* producer's tasks of priority 0.
SamePriorityTask == {t \in ProducerTask : t.priority = 0}

\* The tasks the producer submits where merges are offered: tasks of
\* priority 0 that read at most one component and write at most one.
EqualPriorityTask == {t \in SamePriorityTask : Cardinality(t.readSet) <= 1}

\* TaskInstruction.getPriority
getPriority(instruction) == tasks[instruction].priority

\* ------------------------------------------------------- PriorityGenerator

Min(a, b) == IF a < b THEN a ELSE b

Max(a, b) == IF a > b THEN a ELSE b

\* PriorityGenerator.constructor
NewPriorityGenerator == [min |-> 0, max |-> 0, current |-> 0, frontier |-> 0]

\* A notification that never lowers the minimum of the window.
notifyPriorityExistsKeepsMin(gen, priority) ==
    LET newMax == Max(gen.max, priority)
    IN  [min      |-> gen.min,
         max      |-> newMax,
         current  |-> IF gen.max # newMax THEN newMax ELSE gen.current,
         frontier |-> IF gen.max # newMax THEN newMax ELSE gen.frontier]

\* A notification that restarts the generator whatever the priority.
notifyPriorityExistsAlwaysRestarts(gen, priority) ==
    LET newMax == Max(gen.max, priority)
    IN  [min      |-> Min(gen.min, priority),
         max      |-> newMax,
         current  |-> newMax,
         frontier |-> newMax]

\* A notification that never raises the maximum of the window.
notifyPriorityExistsKeepsMax(gen, priority) ==
    [gen EXCEPT !.min = Min(gen.min, priority)]

\* PriorityGenerator.notifyPriorityExists
notifyPriorityExists(gen, priority) ==
    LET newMax == Max(gen.max, priority)
    IN  [min      |-> Min(gen.min, priority),
         max      |-> newMax,
         current  |-> IF gen.max # newMax THEN newMax ELSE gen.current,
         frontier |-> IF gen.max # newMax THEN newMax ELSE gen.frontier]

\* A frontier that is reset to the maximum and never descends.
nextFrontierNeverDescends(gen) ==
    [gen EXCEPT !.frontier = gen.max, !.current = gen.max]

\* A frontier that returns to the maximum one row early.
nextFrontierWrapsEarly(gen) ==
    [gen EXCEPT !.frontier = IF gen.frontier > gen.min + 1
                             THEN gen.frontier - 1 ELSE gen.max,
                !.current  = gen.max]

\* A frontier that descends one priority below the minimum before it
\* returns to the maximum.
nextFrontierPassesMin(gen) ==
    [gen EXCEPT !.frontier = IF gen.frontier >= gen.min
                             THEN gen.frontier - 1 ELSE gen.max,
                !.current  = gen.max]

\* PriorityGenerator.nextFrontier
nextFrontier(gen) ==
    [gen EXCEPT !.frontier = IF gen.frontier > gen.min
                             THEN gen.frontier - 1 ELSE gen.max,
                !.current  = gen.max]

\* A generator that returns the frontier instead of the current priority.
nextReturnsFrontier(gen) ==
    [result |-> gen.frontier,
     gen    |-> IF gen.current <= gen.frontier
                THEN nextFrontier(gen)
                ELSE [gen EXCEPT !.current = gen.current - 1]]

\* A generator whose current priority never descends below the maximum.
nextNeverDescends(gen) ==
    [result |-> gen.current,
     gen    |-> IF gen.current <= gen.frontier
                THEN nextFrontier(gen)
                ELSE gen]

\* PriorityGenerator.next: the priority returned and the generator after it.
next(gen) ==
    [result |-> gen.current,
     gen    |-> IF gen.current <= gen.frontier
                THEN nextFrontier(gen)
                ELSE [gen EXCEPT !.current = gen.current - 1]]

\* The length of one cycle of the priority generator.
CycleLength(gen) == ((gen.max - gen.min + 1) * (gen.max - gen.min + 2)) \div 2

\* ------------------------------------------------ PriorityPartitionedQueue

\* PriorityPartitionedQueue.constructor
NewPriorityPartitionedQueue ==
    [subQueues             |-> [p \in Priorities |-> <<>>],
     nonEmptySubQueueCount |-> 0,
     priorityGen           |-> NewPriorityGenerator]

\* An emptiness test that never reports an empty queue.
PPQIsEmptyNever(q) == q.nonEmptySubQueueCount < 0

\* PriorityPartitionedQueue.isEmpty
PPQIsEmpty(q) == q.nonEmptySubQueueCount = 0

\* An enqueue that does not count the sub-queue that becomes non-empty.
PPQEnqueueWithoutCount(q, value, priority) ==
    LET wasEmpty == q.subQueues[priority] = <<>>
    IN  [subQueues             |-> [q.subQueues EXCEPT ![priority] = Append(@, value)],
         nonEmptySubQueueCount |-> q.nonEmptySubQueueCount,
         priorityGen           |-> IF wasEmpty
                                   THEN notifyPriorityExists(q.priorityGen, priority)
                                   ELSE q.priorityGen]

\* An enqueue that puts the value at the front of its sub-queue.
PPQEnqueueAtFront(q, value, priority) ==
    LET wasEmpty == q.subQueues[priority] = <<>>
    IN  [subQueues             |-> [q.subQueues EXCEPT ![priority] = <<value>> \o @],
         nonEmptySubQueueCount |-> IF wasEmpty THEN q.nonEmptySubQueueCount + 1
                                   ELSE q.nonEmptySubQueueCount,
         priorityGen           |-> IF wasEmpty
                                   THEN notifyPriorityExists(q.priorityGen, priority)
                                   ELSE q.priorityGen]

\* An enqueue that counts a sub-queue at every value it receives.
PPQEnqueueAlwaysCounts(q, value, priority) ==
    LET wasEmpty == q.subQueues[priority] = <<>>
    IN  [subQueues             |-> [q.subQueues EXCEPT ![priority] = Append(@, value)],
         nonEmptySubQueueCount |-> q.nonEmptySubQueueCount + 1,
         priorityGen           |-> IF wasEmpty
                                   THEN notifyPriorityExists(q.priorityGen, priority)
                                   ELSE q.priorityGen]

\* PriorityPartitionedQueue.enqueue
PPQEnqueue(q, value, priority) ==
    LET wasEmpty == q.subQueues[priority] = <<>>
    IN  [subQueues             |-> [q.subQueues EXCEPT ![priority] = Append(@, value)],
         nonEmptySubQueueCount |-> IF wasEmpty THEN q.nonEmptySubQueueCount + 1
                                   ELSE q.nonEmptySubQueueCount,
         priorityGen           |-> IF wasEmpty
                                   THEN notifyPriorityExists(q.priorityGen, priority)
                                   ELSE q.priorityGen]

\* The number of next() calls after which the do-while loop of dequeue is
\* given up as not terminating: two full cycles of the generator.
LoopFuel(gen) == (gen.max - gen.min + 1) * (gen.max - gen.min + 2)

\* The do-while loop of PriorityPartitionedQueue.dequeue: advance the
\* generator until it names a non-empty sub-queue.
RECURSIVE PickSubQueue(_, _, _, _)
PickSubQueue(gen, subQueues, fuel, calls) ==
    CHOOSE pick \in
        {IF n.result \in DOMAIN subQueues /\ subQueues[n.result] # <<>>
         THEN [found |-> TRUE, priority |-> n.result, gen |-> n.gen, calls |-> calls + 1]
         ELSE IF fuel = 0
         THEN [found |-> FALSE, priority |-> n.result, gen |-> n.gen, calls |-> calls + 1]
         ELSE PickSubQueue(n.gen, subQueues, fuel - 1, calls + 1) :
             n \in {next(gen)}} : TRUE

\* PriorityPartitionedQueue.dequeue: the value returned (None when empty),
\* the queue after the call, and whether the loop terminated.
PPQDequeue(q) ==
    IF PPQIsEmpty(q)
    THEN [result |-> None, queue |-> q, terminates |-> TRUE, calls |-> 0]
    ELSE LET pick == PickSubQueue(q.priorityGen, q.subQueues,
                                  LoopFuel(q.priorityGen), 0)
         IN  IF ~pick.found
             THEN [result |-> None, queue |-> [q EXCEPT !.priorityGen = pick.gen],
                   terminates |-> FALSE, calls |-> pick.calls]
             ELSE LET rest == Tail(q.subQueues[pick.priority])
                  IN  [result |-> Head(q.subQueues[pick.priority]),
                       queue  |-> [subQueues |-> [q.subQueues EXCEPT ![pick.priority] = rest],
                                   nonEmptySubQueueCount |->
                                       IF rest = <<>> THEN q.nonEmptySubQueueCount - 1
                                       ELSE q.nonEmptySubQueueCount,
                                   priorityGen |-> pick.gen],
                       terminates |-> TRUE, calls |-> pick.calls]

\* The instructions held in the priority-partitioned queue.
Queued(q) == UNION {Range(q.subQueues[p]) : p \in DOMAIN q.subQueues}

\* ------------------------------------------------------- InstructionMerger

\* The rewriters a consumer can register.  A rewriter is interested in the
\* tasks that touch its component, and fuses a writer with a reader of equal
\* priority.
Rewriter == [component : Components]

\* TaskRewriter.isOfInterest
isOfInterest(rewriter, task) ==
    rewriter.component \in task.readSet \cup task.writeSet

\* TaskRewriter.maybeRewrite: the set holding the fused task, empty for none.
maybeRewrite(rewriter, firstTask, secondTask) ==
    IF firstTask.priority = secondTask.priority
    THEN {[readSet  |-> firstTask.readSet \cup secondTask.readSet,
           writeSet |-> firstTask.writeSet \cup secondTask.writeSet,
           priority |-> firstTask.priority]}
    ELSE {}

\* InstructionMerger.hasEmptyIntersection
hasEmptyIntersection(first, second) ==
    ~ \E element \in first : element \in second

\* InstructionMerger.introduceInstruction
introduceInstruction(sets, rws, instruction, task) ==
    [i \in DOMAIN sets |->
        IF isOfInterest(rws[i], task) THEN sets[i] \cup {instruction} ELSE sets[i]]

\* A completion that leaves the instruction in the interest sets.
completeInstructionKeeps(sets, instruction) == sets

\* InstructionMerger.completeInstruction
completeInstruction(sets, instruction) ==
    [i \in DOMAIN sets |-> sets[i] \ {instruction}]

\* ---------------------------------------------------------- ModelTaskQueue

\* ModelTaskQueue.isEmpty
isEmpty == PPQIsEmpty(eligibleInstructions)

\* An eligibility test that tolerates one unmet dependency.
isEligibleWithOneDependency(deps, instruction) ==
    Cardinality(deps[instruction]) <= 1

\* TaskInstruction.isEligibleForExecution
isEligibleForExecution(deps, instruction) == deps[instruction] = {}

\* The instructions constructed so far.
Instructions == 1 .. Len(tasks)

\* A dependency set computed from the write set instead of the read set.
WriteDependencies(task) ==
    {latestComponentStateMap[c] : c \in task.writeSet} \ {None}

\* A dependency set resolved after the write set has updated the map.
ReadDependenciesAfterWrite(task) ==
    {IF c \in task.writeSet THEN Len(tasks) + 1 ELSE latestComponentStateMap[c] :
         c \in task.readSet} \ {None}

\* The read set of ModelTaskQueue.enqueue turned into a dependency set.
ReadDependencies(task) ==
    {latestComponentStateMap[c] : c \in task.readSet} \ {None}

\* ModelTaskQueue.enqueue
Enqueue(task) ==
    LET instruction == Len(tasks) + 1
        deps        == ReadDependencies(task)
    IN  /\ tasks' = Append(tasks, task)
        /\ dependencies' = Append(dependencies, deps)
        /\ invertedDependencies' =
               Append([j \in DOMAIN invertedDependencies |->
                          IF j \in deps
                          THEN SetAdd(invertedDependencies[j], instruction)
                          ELSE invertedDependencies[j]],
                      <<>>)
        /\ latestComponentStateMap' =
               [c \in Components |->
                   IF c \in task.writeSet THEN instruction
                   ELSE latestComponentStateMap[c]]
        /\ eligibleInstructions' =
               IF isEligibleForExecution(dependencies', instruction)
               THEN PPQEnqueue(eligibleInstructions, instruction, task.priority)
               ELSE eligibleInstructions
        /\ interestSets' = introduceInstruction(interestSets, rewriters, instruction, task)
        /\ call' = [op |-> "enqueue", result |-> instruction, terminates |-> TRUE]
        /\ UNCHANGED <<rewriters, returned, merged>>

\* A completion that removes the dependency and never enqueues a dependent.
ReleaseDependentsWithoutEnqueue(dependents, instruction, deps, q) ==
    [dependencies |->
         [j \in DOMAIN deps |->
             IF j \in Range(dependents) THEN deps[j] \ {instruction} ELSE deps[j]],
     queue |-> q]

\* A completion that enqueues every dependent, eligible or not.
RECURSIVE ReleaseDependentsAlwaysEnqueues(_, _, _, _)
ReleaseDependentsAlwaysEnqueues(dependents, instruction, deps, q) ==
    IF dependents = <<>>
    THEN [dependencies |-> deps, queue |-> q]
    ELSE LET dependentInstruction == Head(dependents)
             removed == [deps EXCEPT ![dependentInstruction] = @ \ {instruction}]
         IN  ReleaseDependentsAlwaysEnqueues(
                 Tail(dependents), instruction, removed,
                 PPQEnqueue(q, dependentInstruction,
                            getPriority(dependentInstruction)))

\* The forEach of ModelTaskQueue.complete over the inverted dependencies of
\* the completed instruction, in iteration order.
RECURSIVE ReleaseDependents(_, _, _, _)
ReleaseDependents(dependents, instruction, deps, q) ==
    IF dependents = <<>>
    THEN [dependencies |-> deps, queue |-> q]
    ELSE LET dependentInstruction == Head(dependents)
             removed == [deps EXCEPT ![dependentInstruction] = @ \ {instruction}]
         IN  ReleaseDependents(
                 Tail(dependents), instruction, removed,
                 IF isEligibleForExecution(removed, dependentInstruction)
                 THEN PPQEnqueue(q, dependentInstruction,
                                 getPriority(dependentInstruction))
                 ELSE q)

\* A completion that leaves the inverted dependencies of the completed
\* instruction in place.
CompleteWithoutClear(instruction, q) ==
    LET released == ReleaseDependents(invertedDependencies[instruction],
                                      instruction, dependencies, q)
    IN  /\ interestSets' = completeInstruction(interestSets, instruction)
        /\ dependencies' = released.dependencies
        /\ eligibleInstructions' = released.queue
        /\ invertedDependencies' = invertedDependencies
        /\ latestComponentStateMap' =
               [c \in Components |->
                   IF c \in tasks[instruction].writeSet
                      /\ latestComponentStateMap[c] = instruction
                   THEN None ELSE latestComponentStateMap[c]]

\* A completion that removes the map entry of every component the completed
\* instruction writes, whichever instruction the entry points at.
CompleteRemovesAnyWriter(instruction, q) ==
    LET released == ReleaseDependents(invertedDependencies[instruction],
                                      instruction, dependencies, q)
    IN  /\ interestSets' = completeInstruction(interestSets, instruction)
        /\ dependencies' = released.dependencies
        /\ eligibleInstructions' = released.queue
        /\ invertedDependencies' = [invertedDependencies EXCEPT ![instruction] = <<>>]
        /\ latestComponentStateMap' =
               [c \in Components |->
                   IF c \in tasks[instruction].writeSet
                   THEN None ELSE latestComponentStateMap[c]]

\* ModelTaskQueue.complete, applied to the queue left by the dequeue.
Complete(instruction, q) ==
    LET released == ReleaseDependents(invertedDependencies[instruction],
                                      instruction, dependencies, q)
    IN  /\ interestSets' = completeInstruction(interestSets, instruction)
        /\ dependencies' = released.dependencies
        /\ eligibleInstructions' = released.queue
        /\ invertedDependencies' = [invertedDependencies EXCEPT ![instruction] = <<>>]
        /\ latestComponentStateMap' =
               [c \in Components |->
                   IF c \in tasks[instruction].writeSet
                      /\ latestComponentStateMap[c] = instruction
                   THEN None ELSE latestComponentStateMap[c]]

\* ModelTaskQueue.dequeue
Dequeue ==
    LET d == PPQDequeue(eligibleInstructions)
    IN  /\ call' = [op |-> "dequeue", result |-> d.result, terminates |-> d.terminates]
        /\ IF d.result = None
           THEN /\ eligibleInstructions' = d.queue
                /\ UNCHANGED <<tasks, dependencies, invertedDependencies,
                               latestComponentStateMap, rewriters, interestSets,
                               returned, merged>>
           ELSE /\ Complete(d.result, d.queue)
                /\ returned' = Append(returned, d.result)
                /\ UNCHANGED <<tasks, rewriters, merged>>

\* ModelTaskQueue.registerRewriter
RegisterRewriter(rewriter) ==
    /\ rewriters' = Append(rewriters, rewriter)
    /\ interestSets' = Append(interestSets, {})
    /\ call' = [op |-> "registerRewriter", result |-> None, terminates |-> TRUE]
    /\ UNCHANGED <<tasks, dependencies, invertedDependencies,
                   latestComponentStateMap, eligibleInstructions, returned,
                   merged>>

\* A test that ignores whether the second instruction depends on a dependent
\* of the first.
canMergeIgnoringDependenciesOfSecond(first, second) ==
    \A dependentInstr \in Range(invertedDependencies[first]) \ {second} :
        hasEmptyIntersection(tasks[dependentInstr].readSet,
                             tasks[second].writeSet)

\* InstructionMerger.canMergeReadAfterWrite
canMergeReadAfterWrite(first, second) ==
    \A dependentInstr \in Range(invertedDependencies[first]) \ {second} :
        /\ hasEmptyIntersection(tasks[dependentInstr].readSet,
                                tasks[second].writeSet)
        /\ dependentInstr \notin dependencies[second]

\* InstructionMerger.findReadAfterWriteMergeCandidates: the candidates in
\* the order the nested loops push them.
findReadAfterWriteMergeCandidates(instruction) ==
    LET others == invertedDependencies[instruction]
        n      == Len(rewriters)
        pairs  == [k \in 1 .. Len(others) * n |->
                      [candidate |-> others[((k - 1) \div n) + 1],
                       rewriter  |-> ((k - 1) % n) + 1]]
    IN  SelectSeq(pairs,
                  LAMBDA c : /\ c.candidate \in interestSets[c.rewriter]
                             /\ instruction \in interestSets[c.rewriter]
                             /\ canMergeReadAfterWrite(instruction, c.candidate))

\* A transfer that adds mergedInstr and leaves originalInstr in the
\* dependencies of its dependents.
transferDependenciesKeepsOriginal(graph, originalInstr, mergedInstr) ==
    LET dependents == graph.invertedDependencies[originalInstr]
        addAll[k \in 0 .. Len(dependents)] ==
            IF k = 0 THEN graph.invertedDependencies[mergedInstr]
            ELSE SetAdd(addAll[k - 1], dependents[k])
    IN  [dependencies |->
             [j \in DOMAIN graph.dependencies |->
                 IF j \in Range(dependents)
                 THEN graph.dependencies[j] \cup {mergedInstr}
                 ELSE graph.dependencies[j]],
         invertedDependencies |->
             [graph.invertedDependencies EXCEPT ![mergedInstr] = addAll[Len(dependents)]]]

\* transferDependencies of InstructionMerger.createMergedInstruction: the
\* dependents of originalInstr depend on mergedInstr instead.
transferDependencies(graph, originalInstr, mergedInstr) ==
    LET dependents == graph.invertedDependencies[originalInstr]
        addAll[k \in 0 .. Len(dependents)] ==
            IF k = 0 THEN graph.invertedDependencies[mergedInstr]
            ELSE SetAdd(addAll[k - 1], dependents[k])
    IN  [dependencies |->
             [j \in DOMAIN graph.dependencies |->
                 IF j \in Range(dependents)
                 THEN (graph.dependencies[j] \ {originalInstr}) \cup {mergedInstr}
                 ELSE graph.dependencies[j]],
         invertedDependencies |->
             [graph.invertedDependencies EXCEPT ![mergedInstr] = addAll[Len(dependents)]]]

\* InstructionMerger.createMergedInstruction
createMergedInstruction(first, second, mergedTask) ==
    LET mergedInstr == Len(tasks) + 1
        fresh  == [dependencies         |-> Append(dependencies, {}),
                   invertedDependencies |-> Append(invertedDependencies, <<>>)]
        graph  == transferDependencies(
                      transferDependencies(fresh, first, mergedInstr),
                      second, mergedInstr)
    IN  /\ tasks' = Append(tasks, mergedTask)
        /\ dependencies' = graph.dependencies
        /\ invertedDependencies' = graph.invertedDependencies
        /\ interestSets' =
               introduceInstruction(
                   completeInstruction(completeInstruction(interestSets, first), second),
                   rewriters, mergedInstr, mergedTask)
        /\ merged' = Append(merged, <<first, second, mergedInstr>>)
        /\ call' = [op |-> "merge", result |-> mergedInstr, terminates |-> TRUE]

\* A merge that puts the merged instruction in the ready queue and makes it
\* the latest writer of the components first and second wrote last.
MergeEntersQueueAndMap(instruction) ==
    LET rawCandidates == findReadAfterWriteMergeCandidates(instruction)
        rewritten(c)  == maybeRewrite(rewriters[c.rewriter], tasks[instruction],
                                      tasks[c.candidate])
        matches       == {k \in 1 .. Len(rawCandidates) :
                              rewritten(rawCandidates[k]) # {}}
    IN  /\ IF matches = {}
           THEN /\ call' = [op |-> "merge", result |-> None, terminates |-> TRUE]
                /\ UNCHANGED <<tasks, dependencies, invertedDependencies,
                               interestSets, merged, latestComponentStateMap,
                               eligibleInstructions>>
           ELSE LET rawCandidate ==
                        rawCandidates[CHOOSE k \in matches : \A l \in matches : k <= l]
                    mergedTask == CHOOSE t \in rewritten(rawCandidate) : TRUE
                IN  /\ createMergedInstruction(
                           instruction, rawCandidate.candidate, mergedTask)
                    /\ eligibleInstructions' =
                           PPQEnqueue(eligibleInstructions, Len(tasks) + 1,
                                      mergedTask.priority)
                    /\ latestComponentStateMap' =
                           [c \in Components |->
                               IF latestComponentStateMap[c]
                                      \in {instruction, rawCandidate.candidate}
                               THEN Len(tasks) + 1
                               ELSE latestComponentStateMap[c]]
        /\ UNCHANGED <<rewriters, returned>>

\* InstructionMerger.merge
Merge(instruction) ==
    LET rawCandidates == findReadAfterWriteMergeCandidates(instruction)
        rewritten(c)  == maybeRewrite(rewriters[c.rewriter], tasks[instruction],
                                      tasks[c.candidate])
        matches       == {k \in 1 .. Len(rawCandidates) :
                              rewritten(rawCandidates[k]) # {}}
    IN  /\ IF matches = {}
           THEN /\ call' = [op |-> "merge", result |-> None, terminates |-> TRUE]
                /\ UNCHANGED <<tasks, dependencies, invertedDependencies,
                               interestSets, merged>>
           ELSE LET rawCandidate ==
                        rawCandidates[CHOOSE k \in matches : \A l \in matches : k <= l]
                IN  createMergedInstruction(
                        instruction, rawCandidate.candidate,
                        CHOOSE t \in rewritten(rawCandidate) : TRUE)
        /\ UNCHANGED <<latestComponentStateMap, eligibleInstructions, rewriters,
                       returned>>

\* ---------------------------------------------------------- specifications

\* ModelTaskQueue.constructor
Init ==
    /\ tasks = <<>>
    /\ dependencies = <<>>
    /\ invertedDependencies = <<>>
    /\ latestComponentStateMap = [c \in Components |-> None]
    /\ eligibleInstructions = NewPriorityPartitionedQueue
    /\ rewriters = <<>>
    /\ interestSets = <<>>
    /\ returned = <<>>
    /\ merged = <<>>
    /\ call = [op |-> "constructor", result |-> None, terminates |-> TRUE]

\* The number of tasks enqueued so far.
EnqueuedCount == Len(tasks) - Len(merged)

EnqueueTask == \E task \in ProducerTask : EnqueuedCount < MaxTasks /\ Enqueue(task)

DequeueTask == Dequeue

Next == EnqueueTask \/ DequeueTask

\* A producer and a consumer.
Spec == Init /\ [][Next]_vars

EnqueueIndependent ==
    \E task \in IndependentTask :
        EnqueuedCount < MaxIndependentTasks /\ Enqueue(task)

NextIndependent == EnqueueIndependent \/ DequeueTask

\* A producer of tasks that touch no component, and a consumer.
SpecIndependent == Init /\ [][NextIndependent]_vars

EnqueueFair ==
    \E task \in IndependentTask : EnqueuedCount < MaxFairTasks /\ Enqueue(task)

NextFair == EnqueueFair \/ DequeueTask

\* A producer of tasks that touch no component, and a consumer that keeps
\* calling dequeue.
SpecIndependentFair == Init /\ [][NextFair]_vars /\ WF_vars(DequeueTask)

Register == \E rewriter \in Rewriter :
                Len(rewriters) < MaxRewriters /\ RegisterRewriter(rewriter)

NextRewriters == EnqueueTask \/ DequeueTask \/ Register

\* A producer, a consumer and the registration of rewriters.
SpecRewriters == Init /\ [][NextRewriters]_vars

MergeInstruction ==
    \E instruction \in Instructions :
        Len(merged) < MaxMerges /\ Merge(instruction)

NextMerge == EnqueueTask \/ DequeueTask \/ Register \/ MergeInstruction

\* A producer, a consumer, the registration of rewriters, and merges offered
\* at any moment for any instruction.
SpecMerge == Init /\ [][NextMerge]_vars

EnqueueSamePriority ==
    \E task \in SamePriorityTask : EnqueuedCount < MaxTasks /\ Enqueue(task)

NextSamePriority == EnqueueSamePriority \/ DequeueTask

\* A producer of tasks of one priority that depend on each other, and a
\* consumer.
SpecSamePriority == Init /\ [][NextSamePriority]_vars

EnqueueEqualPriority ==
    \E task \in EqualPriorityTask :
        EnqueuedCount < MaxMergeTasks /\ Enqueue(task)

NextMergeEqual ==
    EnqueueEqualPriority \/ DequeueTask \/ Register \/ MergeInstruction

\* A producer of tasks of one priority, a consumer, the registration of
\* rewriters, and merges offered at any moment for any instruction.
SpecMergeEqual == Init /\ [][NextMergeEqual]_vars

NextRewritersEqual == EnqueueEqualPriority \/ DequeueTask \/ Register

\* A producer of tasks of one priority, a consumer and the registration of
\* rewriters.
SpecRewritersEqual == Init /\ [][NextRewritersEqual]_vars

\* A generator that was notified of its lowest and then of its highest
\* priority, in a queue that stays empty.
InitGenerator ==
    /\ tasks = <<>>
    /\ dependencies = <<>>
    /\ invertedDependencies = <<>>
    /\ latestComponentStateMap = [c \in Components |-> None]
    /\ \E lo \in 0 .. MaxBelowZero : \E hi \in 0 .. MaxAboveZero :
           eligibleInstructions =
               [NewPriorityPartitionedQueue EXCEPT !.priorityGen =
                    notifyPriorityExists(
                        notifyPriorityExists(NewPriorityGenerator, -lo), hi)]
    /\ rewriters = <<>>
    /\ interestSets = <<>>
    /\ returned = <<>>
    /\ merged = <<>>
    /\ call = [op |-> "constructor", result |-> None, terminates |-> TRUE]

\* PriorityGenerator.next, called on its own; `returned` collects the
\* priorities it returns.
NextPriority ==
    LET n == next(eligibleInstructions.priorityGen)
    IN  /\ Len(returned) < MaxCycles * CycleLength(eligibleInstructions.priorityGen)
        /\ eligibleInstructions' = [eligibleInstructions EXCEPT !.priorityGen = n.gen]
        /\ returned' = Append(returned, n.result)
        /\ call' = [op |-> "next", result |-> n.result, terminates |-> TRUE]
        /\ UNCHANGED <<tasks, dependencies, invertedDependencies,
                       latestComponentStateMap, rewriters, interestSets, merged>>

\* The priority generator on its own, from a restart on a fixed window.
SpecGenerator == InitGenerator /\ [][NextPriority]_vars

\* PriorityGenerator.notifyPriorityExists, called on its own.
NotifyPriority ==
    \E priority \in (- MaxBelowZero) .. MaxAboveZero :
        /\ eligibleInstructions' =
               [eligibleInstructions EXCEPT !.priorityGen =
                    notifyPriorityExists(eligibleInstructions.priorityGen, priority)]
        /\ call' = [op |-> "notifyPriorityExists", result |-> priority,
                    terminates |-> TRUE]
        /\ UNCHANGED <<tasks, dependencies, invertedDependencies,
                       latestComponentStateMap, rewriters, interestSets,
                       returned, merged>>

\* PriorityGenerator.next, called on its own; the priorities it returns are
\* not collected.
NextValue ==
    LET n == next(eligibleInstructions.priorityGen)
    IN  /\ eligibleInstructions' = [eligibleInstructions EXCEPT !.priorityGen = n.gen]
        /\ call' = [op |-> "next", result |-> n.result, terminates |-> TRUE]
        /\ UNCHANGED <<tasks, dependencies, invertedDependencies,
                       latestComponentStateMap, rewriters, interestSets,
                       returned, merged>>

NextNotified == NotifyPriority \/ NextValue

\* The priority generator on its own, from its construction, with
\* notifications and calls of next in any order.
SpecGeneratorNotified == Init /\ [][NextNotified]_vars

\* ------------------------------------------------------------ observations

\* Instruction a was returned by dequeue.
Returned(a) == a \in Range(returned)

\* The instructions that were constructed and not yet returned by dequeue.
Pending == {i \in Instructions : ~Returned(i)}

\* The position of a returned instruction in the order of return.
ReturnedAt(a) == CHOOSE k \in 1 .. Len(returned) : returned[k] = a

\* If b was returned, then a was returned before it.
ReturnedBefore(a, b) ==
    Returned(b) => Returned(a) /\ ReturnedAt(a) < ReturnedAt(b)

\* The last writer of component c that was enqueued before instruction b.
IsLatestWriterBefore(a, b, c) ==
    /\ a < b
    /\ c \in tasks[a].writeSet
    /\ \A x \in Instructions : a < x /\ x < b => c \notin tasks[x].writeSet

\* The step is a dequeue call that returns a task.
DequeueReturnsTask == call'.op = "dequeue" /\ call'.result # None

\* The number of instructions ahead of instruction t in its sub-queue.
Ahead(q, t) ==
    LET subQueue == q.subQueues[getPriority(t)]
    IN  (CHOOSE k \in 1 .. Len(subQueue) : subQueue[k] = t) - 1

\* The number of consecutive dequeue calls on queue q after which t has been
\* returned; more than limit when it is not returned within limit calls.
RECURSIVE DequeuesUntilReturned(_, _, _)
DequeuesUntilReturned(q, t, limit) ==
    LET d == PPQDequeue(q)
    IN  IF d.result = t THEN 1
        ELSE IF d.result = None \/ limit <= 1 THEN limit + 1
        ELSE 1 + DequeuesUntilReturned(d.queue, t, limit - 1)

\* Sub-queues that hold an instruction exactly at the priorities in levels.
Saturated(levels) ==
    [p \in Priorities |-> IF p \in levels THEN <<None>> ELSE <<>>]

\* The number of consecutive dequeue calls after which one of them serves the
\* sub-queue of priority p, when the sub-queues of the priorities in levels
\* are refilled so that they never drain; more than limit when p is not
\* served within limit calls.
RECURSIVE DequeuesUntilServed(_, _, _, _)
DequeuesUntilServed(gen, levels, p, limit) ==
    LET pick == PickSubQueue(gen, Saturated(levels), LoopFuel(gen), 0)
    IN  IF pick.found /\ pick.priority = p THEN 1
        ELSE IF ~pick.found \/ limit <= 1 THEN limit + 1
        ELSE 1 + DequeuesUntilServed(pick.gen, levels, p, limit - 1)

\* ------------------------------------------------------------------ claims

\* C1: if A was enqueued before B and W(A) intersects R(B) or W(B), then A
\* is returned by dequeue before B, for every assignment of priorities.
C1_DataDependenciesRespected ==
    \A a, b \in Instructions :
        /\ a < b
        /\ tasks[a].writeSet \cap (tasks[b].readSet \cup tasks[b].writeSet) # {}
        => ReturnedBefore(a, b)

\* C2: read after write: if B reads a component whose latest writer A was
\* enqueued before B, dequeue never returns B before it has returned A,
\* whatever their priorities.
C2_ReadAfterWrite ==
    \A a, b \in Instructions : \A c \in Components :
        c \in tasks[b].readSet /\ IsLatestWriterBefore(a, b, c)
        => ReturnedBefore(a, b)

\* A low-priority writer and a high-priority reader of its component have
\* both been returned.
C2_Witness ==
    \E a, b \in Instructions : \E c \in Components :
        /\ c \in tasks[b].readSet /\ IsLatestWriterBefore(a, b, c)
        /\ tasks[a].priority < tasks[b].priority
        /\ Returned(a) /\ Returned(b)

\* The setup of scenario S6: a registered rewriter that accepts t1 and t2 and
\* fuses them, t1 (W = {c}) then t2 (R = {c}) enqueued, nothing dequeued.
S6Setup ==
    /\ Len(rewriters) = 1 /\ Len(tasks) = 2 /\ returned = <<>>
    /\ tasks[1].writeSet = {rewriters[1].component}
    /\ tasks[2].readSet = {rewriters[1].component}
    /\ maybeRewrite(rewriters[1], tasks[1], tasks[2]) # {}
    /\ interestSets[1] = {1, 2}

\* C3: in scenario S6 the first dequeue returns the fused task t12, neither
\* t1 nor t2.
C3_MergeScenario ==
    [][S6Setup /\ call'.op = "dequeue"
       => /\ call'.result # None
          /\ call'.result \notin {1, 2}
          /\ {tasks'[call'.result]} = maybeRewrite(rewriters[1], tasks[1], tasks[2])]_vars

C5_ReadySetEqualsEligibility ==
    LET eligible == {i \in Pending : dependencies[i] = {}}
        q        == eligibleInstructions
    IN  /\ Queued(q) = eligible
        /\ \A p \in DOMAIN q.subQueues :
               \A k, l \in 1 .. Len(q.subQueues[p]) :
                   q.subQueues[p][k] = q.subQueues[p][l] => k = l
        /\ \A p1, p2 \in DOMAIN q.subQueues :
               p1 # p2 => Range(q.subQueues[p1]) \cap Range(q.subQueues[p2]) = {}

\* An instruction that had to wait for a writer is in the ready queue while
\* another instruction still waits.
C5_Witness ==
    /\ \E i \in Queued(eligibleInstructions) :
           \E a \in Range(returned) : \E c \in Components :
               c \in tasks[i].readSet /\ IsLatestWriterBefore(a, i, c)
                   /\ tasks[a].priority < tasks[i].priority
    /\ \E i \in Pending : dependencies[i] # {}

\* C6: for all pending instructions I and J, J is in dependencies(I) if and
\* only if I is in invertedDependencies(J), in every state reachable by
\* enqueue, dequeue and merge.
C6_DependencyMirror ==
    \A i, j \in Pending :
        j \in dependencies[i] <=> i \in Range(invertedDependencies[j])

\* C7: when a pending instruction has an empty dependency set, dequeue
\* returns a task.
C7_Progress ==
    [][(\E i \in Pending : dependencies[i] = {}) /\ call'.op = "dequeue"
       => call'.result # None /\ call'.terminates]_vars

\* dequeue has returned a task while another instruction is still blocked.
C7_Witness ==
    /\ call.op = "dequeue" /\ call.result # None
    /\ \E i \in Pending : dependencies[i] # {}

\* C8: isEmpty is true if and only if no instruction is pending.
C8_IsEmptyIffNothingPending == isEmpty <=> Pending = {}

\* The ready queue is not empty and an instruction waits for a dependency.
C8_Witness ==
    /\ ~isEmpty
    /\ returned # <<>>
    /\ \E i \in Pending : dependencies[i] # {}

\* C9: a merge of (first, second) into I_m preserves every ordering
\* constraint: what had to complete before first or second has to complete
\* before I_m, and what waited for first or second waits for I_m.
C9_MergerSoundness ==
    [][call'.op = "merge" /\ call'.result # None
       => LET first  == merged'[Len(merged')][1]
              second == merged'[Len(merged')][2]
              m      == call'.result
          IN  /\ \A x \in (dependencies[first] \cup dependencies[second])
                              \ {first, second} :
                     x \in dependencies'[m]
              /\ \A k \in (Range(invertedDependencies[first])
                             \cup Range(invertedDependencies[second]))
                              \ {first, second} :
                     m \in dependencies'[k]]_vars

\* C10: a queued task is returned within a number of dequeue calls that
\* depends on max - min alone: one cycle of the generator.
C10_BoundByWindowAlone ==
    \A t \in Queued(eligibleInstructions) :
        LET n == CycleLength(eligibleInstructions.priorityGen)
        IN  DequeuesUntilReturned(eligibleInstructions, t, n) <= n

\* C10 (amended): a queued task with k instructions ahead of it in its
\* sub-queue is returned after at least k + 1 and at most (k + 1) cycles of
\* the generator in dequeue calls, when dequeue is called repeatedly and
\* nothing enters the ready queue.
C10_BoundByWindowAndPosition ==
    \A t \in Queued(eligibleInstructions) :
        LET k == Ahead(eligibleInstructions, t)
            n == (k + 1) * CycleLength(eligibleInstructions.priorityGen)
            d == DequeuesUntilReturned(eligibleInstructions, t, n)
        IN  k + 1 <= d /\ d <= n

\* A queued task with instructions ahead of it needs more dequeue calls than
\* one cycle of a generator whose window spans several priorities.
C10_Witness ==
    \E t \in Queued(eligibleInstructions) :
        LET gen == eligibleInstructions.priorityGen
        IN  /\ gen.max > gen.min
            /\ Ahead(eligibleInstructions, t) > 0
            /\ DequeuesUntilReturned(eligibleInstructions, t, CycleLength(gen))
                   > CycleLength(gen)

\* Every non-empty sub-queue is served within one cycle of the generator in
\* dequeue calls, whichever sub-queues of its window are kept from draining.
ServedEachCycle ==
    LET gen      == eligibleInstructions.priorityGen
        nonEmpty == {p \in Priorities : eligibleInstructions.subQueues[p] # <<>>}
    IN  \A p \in nonEmpty : \A levels \in SUBSET (gen.min .. gen.max) :
            nonEmpty \subseteq levels
            => DequeuesUntilServed(gen, levels, p, CycleLength(gen))
                   <= CycleLength(gen)

Row(max, r) == [k \in 1 .. r |-> max - k + 1]

\* Rows r, r + 1, ..., max - min + 1 of a cycle, one after the other.
RECURSIVE Rows(_, _, _)
Rows(min, max, r) ==
    IF r > max - min + 1 THEN <<>> ELSE Row(max, r) \o Rows(min, max, r + 1)

\* The number of times priority i occurs in sequence s.
Occurrences(s, i) == Cardinality({k \in 1 .. Len(s) : s[k] = i})

\* C12: from a restart on a fixed window min..max, successive calls of next
\* produce the rows [max], [max, max-1], ..., [max, ..., min] and then
\* repeat; a cycle has (max-min+1)(max-min+2)/2 values and holds priority i
\* exactly i-min+1 times; the window -2..3 gives
\* 3, 3,2, 3,2,1, 3,2,1,0, 3,2,1,0,-1, 3,2,1,0,-1,-2.
C12_GeneratorCycle ==
    LET gen   == eligibleInstructions.priorityGen
        cycle == Rows(gen.min, gen.max, 1)
        n     == Len(cycle)
    IN  /\ n = CycleLength(gen)
        /\ \A k \in 1 .. Len(returned) : returned[k] = cycle[((k - 1) % n) + 1]
        /\ Len(returned) >= n
           => \A i \in gen.min .. gen.max :
                  Occurrences(SubSeq(returned, 1, n), i) = i - gen.min + 1
        /\ gen.min = -2 /\ gen.max = 3 /\ Len(returned) >= n
           => SubSeq(returned, 1, n)
                  = <<3, 3, 2, 3, 2, 1, 3, 2, 1, 0, 3, 2, 1, 0, -1,
                      3, 2, 1, 0, -1, -2>>

\* The generator of the window -2..3 has produced a cycle and the row that
\* begins the next one.
C12_Witness ==
    /\ call.op = "next"
    /\ eligibleInstructions.priorityGen.min = -2
    /\ eligibleInstructions.priorityGen.max = 3
    /\ Len(returned) > CycleLength(eligibleInstructions.priorityGen)

\* Sequence s is an initial part of sequence t.
IsPrefix(s, t) == Len(s) <= Len(t) /\ SubSeq(t, 1, Len(s)) = s

\* C13: instructions of equal priority leave the ready queue in the order in
\* which they entered it: a sub-queue only loses its head, to the dequeue
\* that returns it, and only grows at its tail; two tasks of equal priority
\* without dependencies are returned in the order of their enqueue,
\* whatever happens at other priorities.
C13_FifoWithinPriority ==
    [][/\ \A p \in Priorities :
              LET s == eligibleInstructions.subQueues[p]
                  t == eligibleInstructions'.subQueues[p]
              IN  \/ IsPrefix(s, t)
                  \/ /\ s # <<>> /\ call'.op = "dequeue"
                     /\ call'.result = Head(s) /\ IsPrefix(Tail(s), t)
        /\ \A a, b \in 1 .. Len(returned') :
              /\ getPriority(returned'[a]) = getPriority(returned'[b])
              /\ returned'[a] < returned'[b]
              => a < b]_vars

\* Two instructions of equal priority were returned, and between them an
\* instruction of another priority that was enqueued after both.
C13_Witness ==
    \E a, b, c \in 1 .. Len(returned) :
        /\ a < c /\ c < b
        /\ getPriority(returned[a]) = getPriority(returned[b])
        /\ getPriority(returned[c]) # getPriority(returned[a])
        /\ returned[a] < returned[b] /\ returned[b] < returned[c]

\* C14: when an instruction of a priority above the generator's max enters
\* the ready queue, current and frontier are set to that priority, the next
\* value generated is the new max and the dequeue that follows returns an
\* instruction of that priority; an instruction of any other priority that
\* enters the ready queue leaves current and frontier as they were.
C14_RestartAtNewMax ==
    [][call'.op = "enqueue"
       => LET p    == tasks'[call'.result].priority
              gen  == eligibleInstructions.priorityGen
              gen2 == eligibleInstructions'.priorityGen
          IN  IF p > gen.max
              THEN /\ gen2.max = p /\ gen2.current = p /\ gen2.frontier = p
                   /\ next(gen2).result = p
                   /\ PPQDequeue(eligibleInstructions').result # None
                   /\ tasks'[PPQDequeue(eligibleInstructions').result].priority = p
              ELSE /\ gen2.current = gen.current
                   /\ gen2.frontier = gen.frontier]_vars

\* An instruction of a new maximum priority has entered the ready queue of
\* a generator that was running on a window below it, while instructions
\* of lower priority are queued.
C14_Witness ==
    /\ call.op = "enqueue"
    /\ returned # <<>>
    /\ LET gen == eligibleInstructions.priorityGen
       IN  /\ getPriority(call.result) = gen.max
           /\ gen.min < 0 /\ gen.max > 0
           /\ gen.current = gen.max /\ gen.frontier = gen.max
           /\ \A i \in Instructions \ {call.result} : getPriority(i) < gen.max
           /\ \E i \in Queued(eligibleInstructions) : getPriority(i) < gen.max

\* C15: whenever the ready queue is not empty, the loop of
\* PriorityPartitionedQueue.dequeue reaches a non-empty sub-queue, after at
\* most one cycle of the generator in calls of next.
C15_DequeueTerminates ==
    ~PPQIsEmpty(eligibleInstructions)
    => LET d == PPQDequeue(eligibleInstructions)
       IN  /\ d.terminates
           /\ d.result # None
           /\ d.calls >= 1
           /\ d.calls <= CycleLength(eligibleInstructions.priorityGen)

\* The loop of the coming dequeue passes over empty sub-queues for a whole
\* cycle of a generator whose window spans three priorities.
C15_Witness ==
    /\ ~PPQIsEmpty(eligibleInstructions)
    /\ returned # <<>>
    /\ eligibleInstructions.priorityGen.max - eligibleInstructions.priorityGen.min = 2
    /\ PPQDequeue(eligibleInstructions).calls
           = CycleLength(eligibleInstructions.priorityGen)

\* C16: a dequeue on an empty ready queue returns no task and leaves the
\* dependency sets, the latest-writer map, the interest sets, the
\* sub-queues, the counter of non-empty sub-queues and the generator as
\* they were.
C16_EmptyDequeue ==
    [][call'.op = "dequeue" /\ Queued(eligibleInstructions) = {}
       => /\ call'.result = None
          /\ call'.terminates
          /\ UNCHANGED <<tasks, dependencies, invertedDependencies,
                         latestComponentStateMap, eligibleInstructions,
                         rewriters, interestSets, returned, merged>>]_vars

\* dequeue has returned no task from a queue that was drained while its
\* generator was in the middle of a cycle.
C16_Witness ==
    /\ call.op = "dequeue" /\ call.result = None
    /\ Len(tasks) >= 2 /\ Len(returned) = Len(tasks)
    /\ eligibleInstructions.priorityGen.current
           # eligibleInstructions.priorityGen.max

\* C17: the dequeue that returns I removes I from the dependencies of every
\* instruction of its inverted dependencies and of no other, pushes on the
\* ready queue exactly those of them whose dependencies become empty, and
\* clears the inverted dependencies of I; a dependent pushed this way is
\* what the next dequeue returns when nothing else is ready.
C17_PreemptiveCompletion ==
    [][DequeueReturnsTask
       => LET I          == call'.result
              dependents == Range(invertedDependencies[I])
              released   == {J \in dependents : dependencies'[J] = {}}
          IN  /\ \A J \in Instructions :
                     dependencies'[J] = IF J \in dependents
                                        THEN dependencies[J] \ {I}
                                        ELSE dependencies[J]
              /\ Queued(eligibleInstructions')
                     = (Queued(eligibleInstructions) \ {I}) \cup released
              /\ released \cap Queued(eligibleInstructions) = {}
              /\ invertedDependencies'[I] = <<>>
              /\ released # {} /\ Queued(eligibleInstructions') = released
                 => PPQDequeue(eligibleInstructions').result \in released]_vars

\* dequeue has just returned a writer; a reader of the component it wrote,
\* enqueued while the writer was pending, is in the ready queue and is what
\* the next dequeue returns.
C17_Witness ==
    /\ call.op = "dequeue" /\ call.result # None
    /\ \E J \in Queued(eligibleInstructions) : \E c \in Components :
           /\ c \in tasks[J].readSet
           /\ IsLatestWriterBefore(call.result, J, c)
           /\ PPQDequeue(eligibleInstructions).result = J

\* The instructions that write component c.
Writers(c) == {i \in Instructions : c \in tasks[i].writeSet}

\* The most recently enqueued instruction that writes component c.
LatestWriter(c) == CHOOSE i \in Writers(c) : \A j \in Writers(c) : j <= i

\* For every component c, the latest-writer map has an entry for c if and
\* only if the most recently enqueued writer of c has not been returned by
\* dequeue, and the entry is that writer, not a returned instruction.
LatestWriterIsPending ==
    \A c \in Components :
        /\ latestComponentStateMap[c] # None
           <=> Writers(c) # {} /\ ~Returned(LatestWriter(c))
        /\ latestComponentStateMap[c] # None
           => /\ latestComponentStateMap[c] = LatestWriter(c)
              /\ ~Returned(latestComponentStateMap[c])

\* C18: in every state reachable by enqueue and dequeue the latest-writer
\* map holds, for each component, exactly the most recently enqueued writer
\* that is still pending and never a returned instruction; the dequeue of
\* an instruction removes the entries that point at it and leaves every
\* other entry, also that of a later writer of a component it writes.
C18_LatestWriterMap ==
    /\ []LatestWriterIsPending
    /\ [][DequeueReturnsTask
          => \A c \in Components :
                 latestComponentStateMap'[c] =
                     IF latestComponentStateMap[c] = call'.result
                     THEN None ELSE latestComponentStateMap[c]]_vars

\* dequeue has just returned an older writer of a component while a later
\* writer of it is pending, and the map still points at the later writer.
C18_Witness ==
    /\ call.op = "dequeue" /\ call.result # None
    /\ \E c \in Components :
           /\ c \in tasks[call.result].writeSet
           /\ latestComponentStateMap[c] # None
           /\ latestComponentStateMap[c] > call.result

\* C19: canMergeReadAfterWrite(first, second) is true if and only if no
\* dependent K of first other than second reads a component that second
\* writes or is a dependency of second; it is true when second is the only
\* dependent of first.
C19_CanMergeReadAfterWrite ==
    \A first, second \in Instructions :
        LET others == Range(invertedDependencies[first]) \ {second}
            unsafe == {K \in others :
                          \/ tasks[K].readSet \cap tasks[second].writeSet # {}
                          \/ K \in dependencies[second]}
        IN  /\ canMergeReadAfterWrite(first, second) <=> unsafe = {}
            /\ Range(invertedDependencies[first]) = {second}
               => canMergeReadAfterWrite(first, second)

\* An instruction has two dependents of which one depends on the other and
\* reads nothing the other writes, so that the merge of the instruction with
\* the later dependent is refused for that dependency alone, and a third
\* pair that can be merged.
C19_Witness ==
    \E first, second, K \in Instructions :
        /\ second \in Range(invertedDependencies[first])
        /\ K \in Range(invertedDependencies[first]) \ {second}
        /\ tasks[K].readSet \cap tasks[second].writeSet = {}
        /\ K \in dependencies[second]
        /\ ~canMergeReadAfterWrite(first, second)
        /\ canMergeReadAfterWrite(K, second)

\* C20: after merge has fused (first, second) into I_m, every K that was in
\* the inverted dependencies of first or of second has neither first nor
\* second but I_m in its dependencies and is in the inverted dependencies
\* of I_m; first and second are in no interest set, and I_m is in the
\* interest set of exactly the rewriters whose isOfInterest accepts the
\* fused task.
C20_MergeEffectOnDependents ==
    [][call'.op = "merge" /\ call'.result # None
       => LET first  == merged'[Len(merged')][1]
              second == merged'[Len(merged')][2]
              m      == call'.result
          IN  /\ \A K \in Range(invertedDependencies[first])
                            \cup Range(invertedDependencies[second]) :
                     /\ first \notin dependencies'[K]
                     /\ second \notin dependencies'[K]
                     /\ m \in dependencies'[K]
                     /\ K \in Range(invertedDependencies'[m])
              /\ \A i \in DOMAIN interestSets' :
                     /\ first \notin interestSets'[i]
                     /\ second \notin interestSets'[i]
                     /\ m \in interestSets'[i]
                        <=> isOfInterest(rewriters[i], tasks'[m])]_vars

\* merge has fused a writer and a reader while another instruction depended
\* on the writer; that instruction now depends on the merged instruction.
C20_Witness ==
    /\ call.op = "merge" /\ call.result # None
    /\ LET first  == merged[Len(merged)][1]
           second == merged[Len(merged)][2]
       IN  \E K \in Instructions \ {first, second, call.result} :
               /\ K \in Range(invertedDependencies[first])
               /\ call.result \in dependencies[K]
               /\ \E i \in DOMAIN interestSets : call.result \in interestSets[i]

\* C21: after merge has fused (first, second) into I_m, the dependencies of
\* I_m are the union of the dependencies of first and of second, without
\* first and second themselves.
C21_MergedDependenciesAreUnion ==
    [][call'.op = "merge" /\ call'.result # None
       => LET first  == merged'[Len(merged')][1]
              second == merged'[Len(merged')][2]
          IN  dependencies'[call'.result]
                  = (dependencies[first] \cup dependencies[second])
                        \ {first, second}]_vars

\* Every interest set holds only pending instructions that its rewriter
\* declared of interest.
InterestSetsHoldPendingOfInterest ==
    /\ Len(interestSets) = Len(rewriters)
    /\ \A k \in DOMAIN interestSets : \A i \in interestSets[k] :
           i \in Pending /\ isOfInterest(rewriters[k], tasks[i])

\* C22: enqueue puts the new instruction in the interest set of exactly the
\* registered rewriters whose isOfInterest accepts its task; dequeue removes
\* the returned instruction from every interest set; so every interest set
\* holds only enqueued instructions not yet dequeued that its rewriter
\* declared of interest.
C22_InterestSetMaintenance ==
    /\ []InterestSetsHoldPendingOfInterest
    /\ [][/\ call'.op = "enqueue"
             => \A k \in DOMAIN interestSets :
                    interestSets'[k] =
                        IF isOfInterest(rewriters[k], tasks'[call'.result])
                        THEN interestSets[k] \cup {call'.result}
                        ELSE interestSets[k]
          /\ DequeueReturnsTask
             => \A k \in DOMAIN interestSets :
                    interestSets'[k] = interestSets[k] \ {call'.result}]_vars

\* dequeue has returned an instruction of interest to a rewriter whose
\* interest set holds another instruction, while an instruction that was
\* enqueued before the rewriter was registered is pending outside the set.
C22_Witness ==
    /\ call.op = "dequeue" /\ call.result # None
    /\ \E k \in DOMAIN interestSets :
           /\ isOfInterest(rewriters[k], tasks[call.result])
           /\ call.result \notin interestSets[k]
           /\ interestSets[k] # {}
           /\ \E i \in Pending \ interestSets[k] :
                  isOfInterest(rewriters[k], tasks[i])

\* C23: nonEmptySubQueueCount equals the number of sub-queues that hold an
\* element, so isEmpty is true if and only if every sub-queue is empty; the
\* counter is never negative.
C23_NonEmptyCounter ==
    LET q        == eligibleInstructions
        nonEmpty == {p \in DOMAIN q.subQueues : q.subQueues[p] # <<>>}
    IN  /\ q.nonEmptySubQueueCount = Cardinality(nonEmpty)
        /\ q.nonEmptySubQueueCount >= 0
        /\ PPQIsEmpty(q) <=> \A p \in DOMAIN q.subQueues : q.subQueues[p] = <<>>

\* Two sub-queues are non-empty, one of them with several elements, after a
\* third sub-queue was drained.
C23_Witness ==
    LET q == eligibleInstructions
    IN  /\ q.nonEmptySubQueueCount = 2
        /\ \E p \in DOMAIN q.subQueues : Len(q.subQueues[p]) >= 2
        /\ \E r \in Range(returned) : q.subQueues[getPriority(r)] = <<>>

\* When isEmpty is true, every enqueued task has been returned exactly once.
DrainedMeansAllReturnedOnce ==
    isEmpty => \A i \in Instructions : Occurrences(returned, i) = 1

\* C24: dequeue returns only instructions that were enqueued and returns
\* none of them twice; when isEmpty is true, every enqueued task has been
\* returned exactly once.
C24_ExactlyOnce ==
    /\ [][DequeueReturnsTask
          => call'.result \in Instructions /\ ~Returned(call'.result)]_vars
    /\ []DrainedMeansAllReturnedOnce

\* The queue was drained after an instruction in it had waited for two
\* different writers.
C24_Witness ==
    /\ isEmpty /\ call.op = "dequeue" /\ call.result # None
    /\ \E a, b, i \in Instructions :
           /\ a # b
           /\ \E c \in tasks[i].readSet : IsLatestWriterBefore(a, i, c)
           /\ \E c \in tasks[i].readSet : IsLatestWriterBefore(b, i, c)
           /\ ReturnedAt(a) < ReturnedAt(i) /\ ReturnedAt(b) < ReturnedAt(i)

\* C25: every dependency edge goes from an instruction enqueued earlier to
\* one enqueued later, and no instruction is in its own dependency set, also
\* when its task reads and writes the same component; the graph has no
\* cycle.
C25_AcyclicDependencies ==
    \A i \in Instructions :
        /\ \A j \in dependencies[i] : j \in Instructions /\ j < i
        /\ \A j \in Range(invertedDependencies[i]) : j \in Instructions /\ i < j
        /\ i \notin dependencies[i]

\* An instruction that reads and writes one component waits for an earlier
\* writer of that component and is the component's latest writer.
C25_Witness ==
    \E i \in Instructions : \E c \in Components :
        /\ c \in tasks[i].readSet \cap tasks[i].writeSet
        /\ dependencies[i] # {}
        /\ \A j \in dependencies[i] : c \in tasks[j].writeSet
        /\ latestComponentStateMap[c] = i

\* The number of calls of next after which the generator has returned
\* priority p; more than limit when it does not return p within limit calls.
RECURSIVE NextCallsUntil(_, _, _)
NextCallsUntil(gen, p, limit) ==
    LET n == next(gen)
    IN  IF n.result = p THEN 1
        ELSE IF limit <= 1 THEN limit + 1
        ELSE 1 + NextCallsUntil(n.gen, p, limit - 1)

\* C26: every non-empty sub-queue has a priority within the window min..max
\* of the generator, so the generator returns the priority of every queued
\* instruction within one cycle.
C26_SubQueuesWithinWindow ==
    LET q   == eligibleInstructions
        gen == q.priorityGen
    IN  \A p \in DOMAIN q.subQueues :
            q.subQueues[p] # <<>>
            => /\ gen.min <= p /\ p <= gen.max
               /\ NextCallsUntil(gen, p, CycleLength(gen)) <= CycleLength(gen)

\* The sub-queue of the lowest priority of a window of three priorities is
\* non-empty and the generator needs a whole cycle to return its priority.
C26_Witness ==
    LET q   == eligibleInstructions
        gen == q.priorityGen
    IN  /\ gen.max - gen.min = 2
        /\ q.subQueues[gen.min] # <<>>
        /\ NextCallsUntil(gen, gen.min, CycleLength(gen)) = CycleLength(gen)

\* C27: a call of merge, whether it merges or not, leaves the ready queue,
\* its counter, the generator and the latest-writer map as they were: the
\* merged instruction is not in the ready queue, first stays in it when it
\* was there, and the map entries that pointed at first or second still do.
C27_MergeFrame ==
    [][call'.op = "merge"
       => /\ UNCHANGED <<eligibleInstructions, latestComponentStateMap,
                         rewriters, returned>>
          /\ call'.result # None
             => LET first  == merged'[Len(merged')][1]
                    second == merged'[Len(merged')][2]
                IN  /\ call'.result \notin Queued(eligibleInstructions')
                    /\ first \in Queued(eligibleInstructions)
                       => first \in Queued(eligibleInstructions')
                    /\ \A c \in Components :
                           latestComponentStateMap[c] \in {first, second}
                           => latestComponentStateMap'[c]
                                  = latestComponentStateMap[c]]_vars

\* merge has fused first and second; first is in the ready queue, the merged
\* instruction is not, and the map points at first for a component.
C27_Witness ==
    /\ call.op = "merge" /\ call.result # None
    /\ LET first == merged[Len(merged)][1]
       IN  /\ first \in Queued(eligibleInstructions)
           /\ call.result \notin Queued(eligibleInstructions)
           /\ \E c \in Components : latestComponentStateMap[c] = first

\* C28: after merge has fused (first, second) into I_m, neither first nor
\* second is in the dependencies or the inverted dependencies of any other
\* instruction, I_m included, and the inverted dependencies of first and of
\* second are empty.
C28_SupersededDetached ==
    [][call'.op = "merge" /\ call'.result # None
       => LET first  == merged'[Len(merged')][1]
              second == merged'[Len(merged')][2]
          IN  /\ \A x \in (1 .. Len(tasks')) \ {first, second} :
                     /\ dependencies'[x] \cap {first, second} = {}
                     /\ Range(invertedDependencies'[x]) \cap {first, second} = {}
              /\ invertedDependencies'[first] = <<>>
              /\ invertedDependencies'[second] = <<>>]_vars

\* The generator keeps min <= frontier <= current <= max and min <= 0 <= max.
GeneratorWithinBounds ==
    LET gen == eligibleInstructions.priorityGen
    IN  /\ gen.min <= gen.frontier /\ gen.frontier <= gen.current
        /\ gen.current <= gen.max
        /\ gen.min <= 0 /\ 0 <= gen.max

\* C29: in every state reachable by notifyPriorityExists and next,
\* min <= frontier <= current <= max and min <= 0 <= max; min never
\* increases, max never decreases, and every value next returns lies in
\* min..max.
C29_GeneratorStateBounds ==
    /\ []GeneratorWithinBounds
    /\ [][LET gen  == eligibleInstructions.priorityGen
              gen2 == eligibleInstructions'.priorityGen
          IN  /\ gen2.min <= gen.min
              /\ gen2.max >= gen.max
              /\ call'.op = "next"
                 => gen.min <= call'.result /\ call'.result <= gen.max]_vars

\* next has returned a priority strictly between the frontier and the
\* maximum of a window that reaches below and above priority 0.
C29_Witness ==
    LET gen == eligibleInstructions.priorityGen
    IN  /\ call.op = "next"
        /\ gen.min < 0 /\ 0 < gen.max
        /\ gen.min < gen.frontier /\ gen.frontier < gen.current
        /\ gen.current < gen.max

====
